---- MODULE Spec2Model ----
(***************************************************************************)
(* The distributed training loop of bin/main.py (one process per worker,   *)
(* lockstep SPMD, gradient all-reduce inside loss.backward(), rank-0-only  *)
(* TensorBoard reporting) and its learning-rate schedule.                  *)
(*                                                                         *)
(* Python floats are modelled as exact rationals <<n, d>> in lowest terms  *)
(* (d > 0): 1 / world_size is true division, gamma ** k is 1/10^k.  The    *)
(* model therefore decides the claims about the values the code computes   *)
(* up to floating-point rounding, which TLC's integers cannot express.     *)
(***************************************************************************)
EXTENDS Integers, Sequences, FiniteSets, TLC

\* ------------------------------------------------------------------ bounds
MaxWorld == 2
MaxEpochs == 2
MaxBatch == 2
MaxTrain == 3
MaxValid == 3
MaxSkill == 2
MaxSchedWorld == 4
MaxSchedEpoch == 100
MaxCifarEpochs == 3
MaxCifarBatches == 3
MaxCifarValid == 2

\* ------------------------------------------------------ program constants
\* `if epoch < 5`, and the divisor of the warm-up slope
WarmupEpochs == 5
\* milestones = [30, 60, 80]
milestones == <<30, 60, 80>>

\* --------------------------------------------------------------- rationals
\* Each operator binds its arguments to values once ({e : a \in {x}}):
\* TLC hands operator arguments over unevaluated, and nested calls would
\* otherwise be evaluated again at every use.
RECURSIVE Gcd(_, _)
Gcd(a, b) ==
    IF b = 0 THEN a ELSE CHOOSE g \in {Gcd(y, x % y) : x \in {a}, y \in {b}} : TRUE

Abs(a) == IF a < 0 THEN -a ELSE a

\* n/d in lowest terms with a positive denominator
Rat(n, d) ==
    CHOOSE r \in {<<((IF b < 0 THEN -1 ELSE 1) * a) \div g,
                    ((IF b < 0 THEN -1 ELSE 1) * b) \div g>> :
                  a \in {n}, b \in {d}, g \in {Gcd(Abs(n), Abs(d))}} : TRUE

\* the sum over the least common denominator, which keeps the products small
RAdd(x, y) ==
    CHOOSE r \in {LET l == (a[2] \div Gcd(a[2], b[2])) * b[2]
                   IN  Rat(a[1] * (l \div a[2]) + b[1] * (l \div b[2]), l) :
                  a \in {x}, b \in {y}} : TRUE
RSub(x, y) ==
    CHOOSE r \in {Rat(a[1] * b[2] - b[1] * a[2], a[2] * b[2]) : a \in {x}, b \in {y}} : TRUE
RMul(x, y) ==
    CHOOSE r \in {Rat(a[1] * b[1], a[2] * b[2]) : a \in {x}, b \in {y}} : TRUE
RDiv(x, y) ==
    CHOOSE r \in {Rat(a[1] * b[2], a[2] * b[1]) : a \in {x}, b \in {y}} : TRUE
RInt(k) == <<k, 1>>

RECURSIVE RPow(_, _)
RPow(x, k) == IF k = 0 THEN RInt(1) ELSE RMul(x, RPow(x, k - 1))

\* gamma = 0.1
gamma == Rat(1, 10)

\* ------------------------------------------------------------ lr_schedule
\* bisect.bisect_right(a, x) on a sorted list: the binary search of the
\* standard library, 0-based lo/hi over the 1-based sequence a.
RECURSIVE BisectLoop(_, _, _, _)
BisectLoop(a, x, lo, hi) ==
    IF lo < hi
    THEN LET mid == (lo + hi) \div 2
         IN  IF x < a[mid + 1]
             THEN BisectLoop(a, x, lo, mid)
             ELSE BisectLoop(a, x, mid + 1, hi)
    ELSE lo

bisect_right(a, x) == BisectLoop(a, x, 0, Len(a))

\* The ramp of lines 97-98
WarmUpRamp(ws, e) ==
    LET inv_world_size == RDiv(RInt(1), RInt(ws))
    IN  RAdd(inv_world_size,
             RMul(RDiv(RSub(RInt(1), inv_world_size), RInt(WarmupEpochs)), RInt(e)))

\* lr_schedule without its warm-up branch: the decay at every epoch.
lr_schedule_no_warmup(ws, e) == RPow(gamma, bisect_right(milestones, e))

\* lr_schedule with an exclusive milestone search (bisect_left): an epoch
\* equal to a milestone does not count as crossed.
lr_schedule_exclusive(ws, e) ==
    IF e < WarmupEpochs
    THEN WarmUpRamp(ws, e)
    ELSE RPow(gamma, bisect_right(milestones, e - 1))

\* lr_schedule with the slope 1/5 in place of (1 - inv_world_size)/5.
lr_schedule_full_slope(ws, e) ==
    IF e < WarmupEpochs
    THEN RAdd(RDiv(RInt(1), RInt(ws)),
              RMul(RDiv(RInt(1), RInt(WarmupEpochs)), RInt(e)))
    ELSE RPow(gamma, bisect_right(milestones, e))

\* lr_schedule with a warm-up that starts from zero: the ramp without its
\* offset inv_world_size.
lr_schedule_from_zero(ws, e) ==
    IF e < WarmupEpochs
    THEN RMul(RDiv(RSub(RInt(1), RDiv(RInt(1), RInt(ws))), RInt(WarmupEpochs)),
              RInt(e))
    ELSE RPow(gamma, bisect_right(milestones, e))

\* lr_schedule(epoch), closed over world_size
lr_schedule(ws, e) ==
    IF e < WarmupEpochs
    THEN WarmUpRamp(ws, e)
    ELSE RPow(gamma, bisect_right(milestones, e))

\* ------------------------------------------------------------------ state
VARIABLES
    world_size,     \* init_process_group(): number of workers
    epochs,         \* args.epochs
    batch,          \* args.batch
    train_len,      \* len(train_set)
    valid_len,      \* len(valid_set)
    ctor_counts,    \* LambdaLR generation: does construction count as a step
    noop_truthy,    \* bool(Noop()) of skeleton.utils
    skill,          \* per worker: the sample up to which its replica favours the target at the start
    pc,             \* per worker: position in main()
    epoch,          \* per worker: the for-loop variable `epoch`
    i,              \* per worker: the training step index `i`
    j,              \* per worker: index of the next validation batch
    correct,        \* per worker: local `correct`
    total,          \* per worker: local `total`
    losses,         \* per worker: local `losses`
    last_epoch,     \* per worker: scheduler.last_epoch
    lr,             \* per worker: optimizer.param_groups[0]['lr']
    sampler_epoch,  \* per worker: train_sampler.epoch
    grads,          \* per worker: gradient buffers "zero", "ready" (one backward) or "accumulated"
    params,         \* per worker: number of optimizer updates applied
    mode,           \* per worker: model.train() / model.eval()
    coll,           \* per worker: <<epoch, i>> of each all-reduce it joined
    contrib,        \* per worker: the gradient it brought to each all-reduce it joined
    weights,        \* per worker: the parameters of its replica, as the sum of its updates
    trace,          \* per worker: the operations it performed, in order
    clock,          \* per worker: the number of time.time() readings it has taken
    epoch_t,        \* per worker: which of its readings `epoch_t` holds (0: none)
    step_t,         \* per worker: which of its readings `step_t` holds (0: none)
    sink,           \* the TensorBoard sink: records in arrival order
    s_world,        \* schedule walk: world_size
    s_epoch,        \* schedule walk: epoch of the last evaluation
    s_value,        \* schedule walk: lr_schedule(s_epoch)
    s_prev,         \* schedule walk: lr_schedule(s_epoch - 1)
    cifar_epochs,   \* resnet-cifar.py: args.epoch
    cifar_train_len,\* resnet-cifar.py: len(train_loader)
    cifar_valid_len,\* resnet-cifar.py: len(valid_loader)
    cifar_pc,       \* resnet-cifar.py: position in main()
    cifar_epoch,    \* resnet-cifar.py: the for-loop variable `epoch`
    batch_idx,      \* resnet-cifar.py: index of the next training batch
    valid_idx,      \* resnet-cifar.py: index of the next validation batch
    global_step,    \* resnet-cifar.py: global_step
    tb_train,       \* resnet-cifar.py: <<tag, step>> of each add_scalar on tb_train
    tb_valid        \* resnet-cifar.py: <<tag, step>> of each add_scalar on tb_valid

config == <<world_size, epochs, batch, train_len, valid_len, ctor_counts,
            noop_truthy, skill>>
locals == <<pc, epoch, i, j, correct, total, losses, last_epoch, lr,
            sampler_epoch, grads, params, mode, coll, contrib, weights,
            trace, clock, epoch_t, step_t>>
loopVars == <<config, locals, sink>>
schedVars == <<s_world, s_epoch, s_value, s_prev>>
cifarVars == <<cifar_epochs, cifar_train_len, cifar_valid_len, cifar_pc,
               cifar_epoch, batch_idx, valid_idx, global_step, tb_train, tb_valid>>
vars == <<loopVars, schedVars, cifarVars>>

Workers == 0 .. (world_size - 1)

\* --------------------------------------------------------------- loaders
CeilDiv(a, b) == (a + b - 1) \div b

\* DistributedSampler.num_samples: every rank gets ceil(len / world_size)
\* indices (the index list is padded to a multiple of world_size).
NumSamples(n, ws) == CeilDiv(n, ws)

\* A sharding without the padding: the ranks below the remainder get one more.
TrainBatchesUnpadded(w) ==
    ((train_len \div world_size)
        + (IF w < train_len % world_size THEN 1 ELSE 0)) \div batch

\* A training loader that keeps the last partial batch of the shard.
TrainBatchesKeepLast(w) == CeilDiv(NumSamples(train_len, world_size), batch)

\* len(train_loader): drop_last=True over the worker's shard
TrainBatches(w) == NumSamples(train_len, world_size) \div batch

\* Validation batches that drop the last partial batch as training does.
ValidBatchesDropLast == valid_len \div batch

\* len(valid_loader): drop_last=False over the whole validation set
ValidBatches == CeilDiv(valid_len, batch)

\* targets.size(0) of validation batch b (0-based)
ValidBatchSize(b) ==
    IF (b + 1) * batch <= valid_len THEN batch ELSE valid_len - b * batch

\* ---------------------------------------------------- model collaborator
\* The replica of worker w starts from skill[w], an input of the model, and
\* moves with every optimizer update.  Each update adds the mean over the
\* workers of the gradients they brought to the all-reduce; to stay in
\* whole numbers the reach of a replica is kept times world_size, and
\* weights[w] holds the sum of the all-reduced gradients it has applied.
Reach(w) == skill[w] * world_size + weights[w]

\* model(inputs) on sample k of a loader: a pair of logits for the classes
\* 0 and 1.  The confidence in class 0 falls with k: <<2, 1>> below the
\* replica's reach, the tie <<0, 0>> at it, <<1, 2>> above.
Outputs(w, k) ==
    IF k * world_size < Reach(w) THEN <<2, 1>>
    ELSE IF k * world_size = Reach(w) THEN <<0, 0>>
    ELSE <<1, 2>>

\* the target class of every sample
Target(k) == 0

\* torch.max(outputs.data, 1): the first class of the largest logit
ArgMax(o) == IF o[2] > o[1] THEN 1 ELSE 0

\* correct_total(outputs, targets) on a batch holding samples lo+1 .. lo+n
\* of the worker's loader
correct_total(w, lo, n) ==
    <<Cardinality({k \in (lo + 1) .. (lo + n) : ArgMax(Outputs(w, k)) = Target(k)}), n>>

\* log(1 + e^d) in millionths, rounded, for the logit differences in use
SoftplusMicro(d) ==
    CASE d = -1 -> 313262
      [] d = 0 -> 693147
      [] d = 1 -> 1313262

\* -log softmax(o)[t] for two classes: log(1 + e^(o[other] - o[t]))
NegLogSoftmax(o, t) == Rat(SoftplusMicro(o[2 - t] - o[t + 1]), 1000000)

RECURSIVE RSum(_)
RSum(s) == IF s = <<>> THEN RInt(0) ELSE RAdd(Head(s), RSum(Tail(s)))

\* The loss of the batch taken from the replica of the highest rank.
cross_entropy_last_rank(w, lo, n) ==
    RDiv(RSum([k \in 1 .. n |->
                  NegLogSoftmax(Outputs(world_size - 1, lo + k), Target(lo + k))]),
         RInt(n))

\* F.cross_entropy(outputs, targets), mean reduction: the mean over the
\* batch of -log softmax(outputs)[target]
cross_entropy(w, lo, n) ==
    RDiv(RSum([k \in 1 .. n |-> NegLogSoftmax(Outputs(w, lo + k), Target(lo + k))]),
         RInt(n))

\* The gradient loss.backward() computes on a batch holding samples
\* lo+1 .. lo+n: one unit towards the target class for every sample the
\* replica does not yet favour it on.
Gradient(w, lo, n) ==
    Cardinality({k \in (lo + 1) .. (lo + n) : Outputs(w, k) # <<2, 1>>})

\* np.average(losses)
average(s) == RDiv(RSum(s), RInt(Len(s)))

\* ------------------------------------------------------------- optimizer
\* 0.0004 * args.batch * world_size
initial_lr == RMul(Rat(4, 10000), RInt(batch * world_size))

\* LambdaLR: param_group['lr'] = base_lr * lr_lambda(last_epoch)
SchedulerLr(le) == RMul(initial_lr, lr_schedule(world_size, le))

\* scheduler.last_epoch after LambdaLR(optimizer, lr_schedule): the
\* constructor evaluates the schedule at epoch 0 in every PyTorch release;
\* from 1.1 on that evaluation is step number 0 (last_epoch = 0), before
\* 1.1 the counter is put back to -1.
SchedulerInitEpoch == IF ctor_counts THEN 0 ELSE -1

\* ----------------------------------------------------------------- rank gate
\* A writer handed to every rank.
TbAlwaysWriter(w) == "TensorBoardWriter"

\* tb = TensorBoardWriter(...) if rank == 0 else Noop()
TbFor(w) == IF w = 0 THEN "TensorBoardWriter" ELSE "Noop"

\* bool(tb(epoch, i))
Truthy(w) == IF TbFor(w) = "TensorBoardWriter" THEN TRUE ELSE noop_truthy

\* tb(*at).scalar(name, value) called by worker w on sink s
Scalar(s, w, name, value, at) ==
    IF TbFor(w) = "TensorBoardWriter"
    THEN Append(s, [name |-> name, value |-> value, at |-> at, rank |-> w])
    ELSE s

\* The wall clock is an input of the model: a process's readings of
\* time.time() are numbered 1, 2, ... in the order it takes them, and
\* time.time() - step_t, time.time() - epoch_t is kept as the pair of readings
\* it subtracts, reading number `now` minus reading number `since`, whatever
\* floats the clock gives (the difference need not be positive: time.time()
\* is not monotonic).
ClockDiff(now, since) == <<"time.time", now, since>>

Ev(name, e) == <<name, e>>

\* ------------------------------------------------------------------- Init
\* The schedule walk at rest, while the training loop runs.
SchedIdle ==
    /\ s_world = 1
    /\ s_epoch = 0
    /\ s_value = RInt(1)
    /\ s_prev = RInt(1)

\* The single-process trainer at rest (a finished run of zero epochs), while
\* the distributed loop runs or the schedule is walked.
CifarIdle ==
    /\ cifar_epochs = 0
    /\ cifar_train_len = 0
    /\ cifar_valid_len = 0
    /\ cifar_pc = "done"
    /\ cifar_epoch = 0
    /\ batch_idx = 0
    /\ valid_idx = 0
    /\ global_step = 0
    /\ tb_train = <<>>
    /\ tb_valid = <<>>

\* main() up to and including line 105: loaders, model, tb, optimizer and
\* scheduler are constructed, no epoch has started.
InitLoop ==
    /\ world_size \in 1 .. MaxWorld
    /\ epochs \in 0 .. MaxEpochs
    /\ batch \in 1 .. MaxBatch
    /\ train_len \in 0 .. MaxTrain
    /\ valid_len \in 0 .. MaxValid
    /\ ctor_counts \in BOOLEAN
    /\ noop_truthy \in (IF world_size = 1 THEN {TRUE} ELSE BOOLEAN)
    /\ skill \in [Workers -> 0 .. MaxSkill]
    /\ pc = [w \in Workers |-> "loop"]
    /\ epoch = [w \in Workers |-> 0]
    /\ i = [w \in Workers |-> 0]
    /\ j = [w \in Workers |-> 0]
    /\ correct = [w \in Workers |-> 0]
    /\ total = [w \in Workers |-> 0]
    /\ losses = [w \in Workers |-> <<>>]
    /\ last_epoch = [w \in Workers |-> SchedulerInitEpoch]
    /\ lr = [w \in Workers |-> SchedulerLr(0)]
    /\ sampler_epoch = [w \in Workers |-> 0]
    /\ grads = [w \in Workers |-> "zero"]
    /\ params = [w \in Workers |-> 0]
    /\ mode = [w \in Workers |-> "train"]
    /\ coll = [w \in Workers |-> <<>>]
    /\ contrib = [w \in Workers |-> <<>>]
    /\ weights = [w \in Workers |-> 0]
    /\ trace = [w \in Workers |-> <<>>]
    /\ clock = [w \in Workers |-> 0]
    /\ epoch_t = [w \in Workers |-> 0]
    /\ step_t = [w \in Workers |-> 0]
    /\ sink = <<>>

Init == InitLoop /\ SchedIdle /\ CifarIdle

\* ---------------------------------------------------------------- actions
\* for epoch in range(args.epochs): one more epoch.  Lines 107-120: reseed
\* the sampler, step the scheduler, report the learning rate, model.train().
EpochStart(w) ==
    /\ w \in Workers
    /\ pc[w] = "loop"
    /\ epoch[w] < epochs
    /\ sampler_epoch' = [sampler_epoch EXCEPT ![w] = epoch[w]]
    /\ last_epoch' = [last_epoch EXCEPT ![w] = last_epoch[w] + 1]
    /\ lr' = [lr EXCEPT ![w] = SchedulerLr(last_epoch[w] + 1)]
    /\ sink' = Scalar(sink, w, "lr", SchedulerLr(last_epoch[w] + 1), <<epoch[w]>>)
    /\ mode' = [mode EXCEPT ![w] = "train"]
    /\ i' = [i EXCEPT ![w] = 0]
    /\ trace' = [trace EXCEPT ![w] = @ \o <<Ev("set_epoch", epoch[w]),
                                            Ev("scheduler.step", epoch[w]),
                                            Ev("lr", epoch[w])>>]
    /\ clock' = [clock EXCEPT ![w] = @ + 1]
    /\ epoch_t' = [epoch_t EXCEPT ![w] = clock[w] + 1]
    /\ pc' = [pc EXCEPT ![w] = "train"]
    /\ UNCHANGED <<config, weights, contrib, step_t, epoch, j, correct, total, losses, grads, params, coll>>
    /\ UNCHANGED <<schedVars, cifarVars>>

\* The epoch loop left one epoch early.
LoopExitEarly(w) ==
    /\ w \in Workers
    /\ pc[w] = "loop"
    /\ epoch[w] >= epochs - 1
    /\ pc' = [pc EXCEPT ![w] = "done"]
    /\ UNCHANGED <<config, weights, contrib, clock, epoch_t, step_t, epoch, i, j, correct, total, losses, last_epoch, lr,
                   sampler_epoch, grads, params, mode, coll, trace, sink>>
    /\ UNCHANGED <<schedVars, cifarVars>>

\* range(args.epochs) is exhausted: main() returns.
LoopExit(w) ==
    /\ w \in Workers
    /\ pc[w] = "loop"
    /\ epoch[w] >= epochs
    /\ pc' = [pc EXCEPT ![w] = "done"]
    /\ UNCHANGED <<config, weights, contrib, clock, epoch_t, step_t, epoch, i, j, correct, total, losses, last_epoch, lr,
                   sampler_epoch, grads, params, mode, coll, trace, sink>>
    /\ UNCHANGED <<schedVars, cifarVars>>

\* Lines 122-130, up to the gradient all-reduce: the next batch is drawn,
\* forward pass, loss, and loss.backward() adds the batch's gradients to
\* the gradient buffers and enters the all-reduce of
\* DistributedDataParallel, where it waits for every worker.
TrainForward(w) ==
    /\ w \in Workers
    /\ pc[w] = "train"
    /\ i[w] < TrainBatches(w)
    /\ coll' = [coll EXCEPT ![w] = Append(@, <<epoch[w], i[w]>>)]
    /\ contrib' = [contrib EXCEPT ![w] = Append(@, Gradient(w, i[w] * batch, batch))]
    /\ grads' = [grads EXCEPT ![w] = IF @ = "zero" THEN "ready" ELSE "accumulated"]
    /\ trace' = [trace EXCEPT ![w] = @ \o <<Ev("forward", epoch[w]),
                                            Ev("loss", epoch[w]),
                                            Ev("backward", epoch[w])>>]
    /\ clock' = [clock EXCEPT ![w] = @ + 1]
    /\ step_t' = [step_t EXCEPT ![w] = clock[w] + 1]
    /\ pc' = [pc EXCEPT ![w] = "backward"]
    /\ UNCHANGED <<config, weights, epoch_t, epoch, i, j, correct, total, losses, last_epoch, lr,
                   sampler_epoch, params, mode, sink>>
    /\ UNCHANGED <<schedVars, cifarVars>>

\* The all-reduce a worker waits in completes once every worker has joined it.
AllReduceDone(w) == \A v \in Workers : Len(coll[v]) >= Len(coll[w])

RECURSIVE SumOf(_, _)
SumOf(S, f) ==
    IF S = {} THEN 0
    ELSE LET v == CHOOSE x \in S : TRUE IN f[v] + SumOf(S \ {v}, f)

\* The result of the all-reduce worker w waits in: the sum over the workers
\* of the gradients they brought to it (the mean, times world_size).
AllReduceSum(w) == SumOf(Workers, [v \in Workers |-> contrib[v][Len(coll[w])]])

\* A training step that never clears the gradient buffers.
TrainFinishNoClear(w) ==
    /\ w \in Workers
    /\ pc[w] = "backward"
    /\ AllReduceDone(w)
    /\ params' = [params EXCEPT ![w] = @ + 1]
    /\ weights' = [weights EXCEPT ![w] = @ + AllReduceSum(w)]
    /\ trace' = [trace EXCEPT ![w] = Append(@, Ev("optimizer.step", epoch[w]))]
    /\ i' = [i EXCEPT ![w] = @ + 1]
    /\ pc' = [pc EXCEPT ![w] = "train"]
    /\ UNCHANGED <<config, contrib, clock, epoch_t, step_t, epoch, j, correct, total, losses, last_epoch, lr,
                   sampler_epoch, grads, mode, coll, sink>>
    /\ UNCHANGED <<schedVars, cifarVars>>

\* A training step whose backward pass returns without waiting for the
\* other workers: the update uses the gradients that have arrived.
TrainFinishNoWait(w) ==
    /\ w \in Workers
    /\ pc[w] = "backward"
    /\ LET ct == correct_total(w, i[w] * batch, batch)
           at == <<epoch[w], i[w]>>
           s1 == Scalar(sink, w, "time-per/step", ClockDiff(clock[w] + 1, step_t[w]), at)
           s2 == Scalar(s1, w, "accuracy/train", Rat(ct[1], ct[2]), at)
           s3 == Scalar(s2, w, "loss/train", cross_entropy(w, i[w] * batch, batch), at)
           here == {v \in Workers : Len(coll[v]) >= Len(coll[w])}
       IN  /\ params' = [params EXCEPT ![w] = @ + 1]
           /\ weights' = [weights EXCEPT ![w] =
                             @ + SumOf(here, [v \in here |-> contrib[v][Len(coll[w])]])]
           /\ grads' = [grads EXCEPT ![w] = "zero"]
           /\ IF Truthy(w)
              THEN /\ sink' = s3
                   /\ clock' = [clock EXCEPT ![w] = @ + 1]
                   /\ correct' = [correct EXCEPT ![w] = ct[1]]
                   /\ total' = [total EXCEPT ![w] = ct[2]]
                   /\ trace' = [trace EXCEPT ![w] = @ \o
                          <<Ev("optimizer.step", epoch[w]), Ev("zero_grad", epoch[w]),
                            Ev("time-per/step", epoch[w]), Ev("accuracy/train", epoch[w]),
                            Ev("loss/train", epoch[w])>>]
              ELSE /\ trace' = [trace EXCEPT ![w] = @ \o
                          <<Ev("optimizer.step", epoch[w]), Ev("zero_grad", epoch[w])>>]
                   /\ UNCHANGED <<sink, correct, total, clock>>
    /\ i' = [i EXCEPT ![w] = @ + 1]
    /\ pc' = [pc EXCEPT ![w] = "train"]
    /\ UNCHANGED <<config, contrib, epoch_t, step_t, epoch, j, losses, last_epoch, lr, sampler_epoch, mode, coll>>
    /\ UNCHANGED <<schedVars, cifarVars>>

\* Lines 130-142, from the completed all-reduce: gradients are ready,
\* optimizer.step() applies them, optimizer.zero_grad(), and the per-step
\* reports in the `if tb_add:` branch.
TrainFinish(w) ==
    /\ w \in Workers
    /\ pc[w] = "backward"
    /\ AllReduceDone(w)
    /\ LET ct == correct_total(w, i[w] * batch, batch)
           at == <<epoch[w], i[w]>>
           s1 == Scalar(sink, w, "time-per/step", ClockDiff(clock[w] + 1, step_t[w]), at)
           s2 == Scalar(s1, w, "accuracy/train", Rat(ct[1], ct[2]), at)
           s3 == Scalar(s2, w, "loss/train", cross_entropy(w, i[w] * batch, batch), at)
       IN  /\ params' = [params EXCEPT ![w] = @ + 1]
           /\ weights' = [weights EXCEPT ![w] = @ + AllReduceSum(w)]
           /\ grads' = [grads EXCEPT ![w] = "zero"]
           /\ IF Truthy(w)
              THEN /\ sink' = s3
                   /\ clock' = [clock EXCEPT ![w] = @ + 1]
                   /\ correct' = [correct EXCEPT ![w] = ct[1]]
                   /\ total' = [total EXCEPT ![w] = ct[2]]
                   /\ trace' = [trace EXCEPT ![w] = @ \o
                          <<Ev("optimizer.step", epoch[w]), Ev("zero_grad", epoch[w]),
                            Ev("time-per/step", epoch[w]), Ev("accuracy/train", epoch[w]),
                            Ev("loss/train", epoch[w])>>]
              ELSE /\ trace' = [trace EXCEPT ![w] = @ \o
                          <<Ev("optimizer.step", epoch[w]), Ev("zero_grad", epoch[w])>>]
                   /\ UNCHANGED <<sink, correct, total, clock>>
    /\ i' = [i EXCEPT ![w] = @ + 1]
    /\ pc' = [pc EXCEPT ![w] = "train"]
    /\ UNCHANGED <<config, contrib, epoch_t, step_t, epoch, j, losses, last_epoch, lr, sampler_epoch, mode, coll>>
    /\ UNCHANGED <<schedVars, cifarVars>>

\* The end of the training phase with the epoch time reported at the
\* epoch's own index.
TrainEndSameIndex(w) ==
    /\ w \in Workers
    /\ pc[w] = "train"
    /\ i[w] >= TrainBatches(w)
    /\ sink' = Scalar(sink, w, "time-per/epoch",
                      ClockDiff(clock[w] + 1, epoch_t[w]), <<epoch[w]>>)
    /\ clock' = [clock EXCEPT ![w] = @ + 1]
    /\ mode' = [mode EXCEPT ![w] = "eval"]
    /\ losses' = [losses EXCEPT ![w] = <<>>]
    /\ correct' = [correct EXCEPT ![w] = 0]
    /\ total' = [total EXCEPT ![w] = 0]
    /\ j' = [j EXCEPT ![w] = 0]
    /\ trace' = [trace EXCEPT ![w] = Append(@, Ev("time-per/epoch", epoch[w]))]
    /\ pc' = [pc EXCEPT ![w] = "valid"]
    /\ UNCHANGED <<config, weights, contrib, epoch_t, step_t, epoch, i, last_epoch, lr, sampler_epoch, grads, params, coll>>
    /\ UNCHANGED <<schedVars, cifarVars>>

\* The training loader is exhausted.  Lines 145-153: report the epoch time
\* at epoch + 1, model.eval(), reset the validation accumulators.
TrainEnd(w) ==
    /\ w \in Workers
    /\ pc[w] = "train"
    /\ i[w] >= TrainBatches(w)
    /\ sink' = Scalar(sink, w, "time-per/epoch",
                      ClockDiff(clock[w] + 1, epoch_t[w]), <<epoch[w] + 1>>)
    /\ clock' = [clock EXCEPT ![w] = @ + 1]
    /\ mode' = [mode EXCEPT ![w] = "eval"]
    /\ losses' = [losses EXCEPT ![w] = <<>>]
    /\ correct' = [correct EXCEPT ![w] = 0]
    /\ total' = [total EXCEPT ![w] = 0]
    /\ j' = [j EXCEPT ![w] = 0]
    /\ trace' = [trace EXCEPT ![w] = Append(@, Ev("time-per/epoch", epoch[w]))]
    /\ pc' = [pc EXCEPT ![w] = "valid"]
    /\ UNCHANGED <<config, weights, contrib, epoch_t, step_t, epoch, i, last_epoch, lr, sampler_epoch, grads, params, coll>>
    /\ UNCHANGED <<schedVars, cifarVars>>

\* Lines 156-168: one validation batch under torch.no_grad().
ValidStep(w) ==
    /\ w \in Workers
    /\ pc[w] = "valid"
    /\ j[w] < ValidBatches
    /\ LET n == ValidBatchSize(j[w])
           ct == correct_total(w, j[w] * batch, n)
       IN  /\ losses' = [losses EXCEPT ![w] = Append(@, cross_entropy(w, j[w] * batch, n))]
           /\ correct' = [correct EXCEPT ![w] = @ + ct[1]]
           /\ total' = [total EXCEPT ![w] = @ + ct[2]]
    /\ j' = [j EXCEPT ![w] = @ + 1]
    /\ trace' = [trace EXCEPT ![w] = Append(@, Ev("valid", epoch[w]))]
    /\ UNCHANGED <<config, weights, contrib, clock, epoch_t, step_t, pc, epoch, i, last_epoch, lr, sampler_epoch, grads,
                   params, mode, coll, sink>>
    /\ UNCHANGED <<schedVars, cifarVars>>

\* The ratio with the counts of all workers summed in the numerator only.
AccuracyTimesWorld(w) == Rat(correct[w] * world_size, total[w])

\* accuracy = correct / total (line 170), the value handed to the report
Accuracy(w) == Rat(correct[w], total[w])

\* A ratio that yields not-a-number (written <<0, 0>>) over an empty
\* validation set, as a floating-point division would, and goes on.
ValidEndSilentNaN(w) ==
    /\ w \in Workers
    /\ pc[w] = "valid"
    /\ j[w] >= ValidBatches
    /\ LET acc == IF total[w] = 0 THEN <<0, 0>> ELSE Accuracy(w)
           avg == IF losses[w] = <<>> THEN <<0, 0>> ELSE average(losses[w])
       IN  sink' = Scalar(Scalar(sink, w, "accuracy/valid", acc, <<epoch[w] + 1>>),
                          w, "loss/valid", avg, <<epoch[w] + 1>>)
    /\ trace' = [trace EXCEPT ![w] = @ \o <<Ev("accuracy/valid", epoch[w]),
                                            Ev("loss/valid", epoch[w])>>]
    /\ epoch' = [epoch EXCEPT ![w] = @ + 1]
    /\ pc' = [pc EXCEPT ![w] = "loop"]
    /\ UNCHANGED <<config, weights, contrib, clock, epoch_t, step_t, i, j, correct, total, losses, last_epoch, lr,
                   sampler_epoch, grads, params, mode, coll>>
    /\ UNCHANGED <<schedVars, cifarVars>>

\* The validation loader is exhausted.  Lines 170-174: the ratio (a
\* ZeroDivisionError when total is 0, which nothing catches), the two
\* reports at epoch + 1, and the next iteration of the epoch loop.
ValidEnd(w) ==
    /\ w \in Workers
    /\ pc[w] = "valid"
    /\ j[w] >= ValidBatches
    /\ IF total[w] = 0
       THEN /\ pc' = [pc EXCEPT ![w] = "failed"]
            /\ UNCHANGED <<epoch, trace, sink>>
       ELSE /\ sink' = Scalar(Scalar(sink, w, "accuracy/valid", Accuracy(w),
                                     <<epoch[w] + 1>>),
                              w, "loss/valid", average(losses[w]), <<epoch[w] + 1>>)
            /\ trace' = [trace EXCEPT ![w] = @ \o <<Ev("accuracy/valid", epoch[w]),
                                                    Ev("loss/valid", epoch[w])>>]
            /\ epoch' = [epoch EXCEPT ![w] = @ + 1]
            /\ pc' = [pc EXCEPT ![w] = "loop"]
    /\ UNCHANGED <<config, weights, contrib, clock, epoch_t, step_t, i, j, correct, total, losses, last_epoch, lr,
                   sampler_epoch, grads, params, mode, coll>>
    /\ UNCHANGED <<schedVars, cifarVars>>

\* A worker stops on a training step before loss.backward(), on a local
\* exception that nothing catches and no other worker is told of.  It is
\* raised in the data fetch of line 122 (nothing of the step has happened),
\* in the transfer or the forward pass of lines 125-127 (line 123 has read
\* the clock into step_t), or in the loss of line 128 (the forward pass
\* has been performed as well).
Crash(w) ==
    /\ w \in Workers
    /\ pc[w] = "train"
    /\ i[w] < TrainBatches(w)
    /\ \E point \in {"fetch", "forward", "loss"} :
          /\ IF point = "fetch"
             THEN UNCHANGED <<clock, step_t>>
             ELSE /\ clock' = [clock EXCEPT ![w] = @ + 1]
                  /\ step_t' = [step_t EXCEPT ![w] = clock[w] + 1]
          /\ IF point = "loss"
             THEN trace' = [trace EXCEPT ![w] = Append(@, Ev("forward", epoch[w]))]
             ELSE UNCHANGED trace
    /\ pc' = [pc EXCEPT ![w] = "crashed"]
    /\ UNCHANGED <<config, weights, contrib, epoch_t, epoch, i, j, correct, total, losses, last_epoch, lr,
                   sampler_epoch, grads, params, mode, coll, sink>>
    /\ UNCHANGED <<schedVars, cifarVars>>

\* One step of worker w's process.
Step(w) ==
    \/ EpochStart(w)
    \/ LoopExit(w)
    \/ TrainForward(w)
    \/ TrainFinish(w)
    \/ TrainEnd(w)
    \/ ValidStep(w)
    \/ ValidEnd(w)

\* Every rank a launch can have; Workers are those of this launch.
Ranks == 0 .. (MaxWorld - 1)

Next ==
    \/ \E w \in Ranks : EpochStart(w)
    \/ \E w \in Ranks : LoopExit(w)
    \/ \E w \in Ranks : TrainForward(w)
    \/ \E w \in Ranks : TrainFinish(w)
    \/ \E w \in Ranks : TrainEnd(w)
    \/ \E w \in Ranks : ValidStep(w)
    \/ \E w \in Ranks : ValidEnd(w)

Spec == Init /\ [][Next]_vars

\* The loop with worker failures: every process keeps running while it can
\* take a step (each is an OS process of its own); a failure may or may not
\* happen.
NextFail ==
    \/ Next
    \/ \E w \in Ranks : Crash(w)

SpecFail == Init /\ [][NextFail]_vars /\ \A w \in Ranks : WF_vars(Step(w))

\* The loop without failures, every process running while it can take a step.
SpecFair == Init /\ [][Next]_vars /\ \A w \in Ranks : WF_vars(Step(w))

\* ------------------------------------------------------- the schedule walk
\* The training loop at rest (a finished run of zero epochs on one worker),
\* while the schedule is walked.
LoopIdle ==
    /\ world_size = 1
    /\ epochs = 0
    /\ batch = 1
    /\ train_len = 0
    /\ valid_len = 0
    /\ ctor_counts = TRUE
    /\ noop_truthy = TRUE
    /\ skill = [w \in {0} |-> 0]
    /\ pc = [w \in {0} |-> "done"]
    /\ epoch = [w \in {0} |-> 0]
    /\ i = [w \in {0} |-> 0]
    /\ j = [w \in {0} |-> 0]
    /\ correct = [w \in {0} |-> 0]
    /\ total = [w \in {0} |-> 0]
    /\ losses = [w \in {0} |-> <<>>]
    /\ last_epoch = [w \in {0} |-> 0]
    /\ lr = [w \in {0} |-> Rat(4, 10000)]
    /\ sampler_epoch = [w \in {0} |-> 0]
    /\ grads = [w \in {0} |-> "zero"]
    /\ params = [w \in {0} |-> 0]
    /\ mode = [w \in {0} |-> "train"]
    /\ coll = [w \in {0} |-> <<>>]
    /\ contrib = [w \in {0} |-> <<>>]
    /\ weights = [w \in {0} |-> 0]
    /\ trace = [w \in {0} |-> <<>>]
    /\ clock = [w \in {0} |-> 0]
    /\ epoch_t = [w \in {0} |-> 0]
    /\ step_t = [w \in {0} |-> 0]
    /\ sink = <<>>

\* lr_schedule is applied to epoch 0 for a world size of the bounded set.
InitSchedule ==
    /\ LoopIdle
    /\ CifarIdle
    /\ s_world \in 1 .. MaxSchedWorld
    /\ s_epoch = 0
    /\ s_value = lr_schedule(s_world, 0)
    /\ s_prev = lr_schedule(s_world, 0)

\* lr_schedule is applied to the next epoch, as LambdaLR does at each step;
\* the value of the previous epoch is kept beside it.
EvalNext ==
    /\ s_epoch < MaxSchedEpoch
    /\ s_epoch' = s_epoch + 1
    /\ s_prev' = s_value
    /\ s_value' = lr_schedule(s_world, s_epoch + 1)
    /\ UNCHANGED s_world
    /\ UNCHANGED <<loopVars, cifarVars>>

NextSchedule == EvalNext

SpecSchedule == InitSchedule /\ [][NextSchedule]_vars

\* ------------------------------------- the single-process trainer
\* resnet-cifar.py, main() from line 52: the epoch loop with its step
\* counter and its two TensorBoard writers.  The scalar values play no part
\* in the counter and are left out of the records.

\* main() up to and including line 55: the writers are open, global_step is
\* 0 and no epoch has started.
InitCifar ==
    /\ LoopIdle
    /\ SchedIdle
    /\ cifar_epochs \in 0 .. MaxCifarEpochs
    /\ cifar_train_len \in 0 .. MaxCifarBatches
    /\ cifar_valid_len \in 0 .. MaxCifarValid
    /\ cifar_pc = "loop"
    /\ cifar_epoch = 0
    /\ batch_idx = 0
    /\ valid_idx = 0
    /\ global_step = 0
    /\ tb_train = <<>>
    /\ tb_valid = <<>>

\* Lines 57-64: one more epoch; the learning rate of the one parameter
\* group is logged at global_step.
CifarLogLr ==
    /\ cifar_pc = "loop"
    /\ cifar_epoch < cifar_epochs
    /\ tb_train' = Append(tb_train, <<"lr", global_step>>)
    /\ batch_idx' = 0
    /\ cifar_pc' = "train"
    /\ UNCHANGED <<cifar_epochs, cifar_train_len, cifar_valid_len, cifar_epoch,
                   valid_idx, global_step, tb_valid>>
    /\ UNCHANGED <<loopVars, schedVars>>

\* range(args.epoch) is exhausted: main() returns.
CifarExit ==
    /\ cifar_pc = "loop"
    /\ cifar_epoch >= cifar_epochs
    /\ cifar_pc' = "done"
    /\ UNCHANGED <<cifar_epochs, cifar_train_len, cifar_valid_len, cifar_epoch,
                   batch_idx, valid_idx, global_step, tb_train, tb_valid>>
    /\ UNCHANGED <<loopVars, schedVars>>

\* A training step that logs its scalars before it counts the step.
CifarTrainStepLogFirst ==
    /\ cifar_pc = "train"
    /\ batch_idx < cifar_train_len
    /\ tb_train' = tb_train \o <<<<"loss", global_step>>, <<"accuracy", global_step>>>>
    /\ global_step' = global_step + 1
    /\ batch_idx' = batch_idx + 1
    /\ UNCHANGED <<cifar_epochs, cifar_train_len, cifar_valid_len, cifar_pc,
                   cifar_epoch, valid_idx, tb_valid>>
    /\ UNCHANGED <<loopVars, schedVars>>

\* Lines 67-85: one training step; global_step += 1, then loss and accuracy
\* are logged at the new global_step.
CifarTrainStep ==
    /\ cifar_pc = "train"
    /\ batch_idx < cifar_train_len
    /\ global_step' = global_step + 1
    /\ tb_train' = tb_train \o <<<<"loss", global_step + 1>>,
                                  <<"accuracy", global_step + 1>>>>
    /\ batch_idx' = batch_idx + 1
    /\ UNCHANGED <<cifar_epochs, cifar_train_len, cifar_valid_len, cifar_pc,
                   cifar_epoch, valid_idx, tb_valid>>
    /\ UNCHANGED <<loopVars, schedVars>>

\* The training loader is exhausted.  Lines 88-92: validation begins.
CifarTrainEnd ==
    /\ cifar_pc = "train"
    /\ batch_idx >= cifar_train_len
    /\ valid_idx' = 0
    /\ cifar_pc' = "valid"
    /\ UNCHANGED <<cifar_epochs, cifar_train_len, cifar_valid_len, cifar_epoch,
                   batch_idx, global_step, tb_train, tb_valid>>
    /\ UNCHANGED <<loopVars, schedVars>>

\* Lines 94-106: one validation batch.
CifarValidStep ==
    /\ cifar_pc = "valid"
    /\ valid_idx < cifar_valid_len
    /\ valid_idx' = valid_idx + 1
    /\ UNCHANGED <<cifar_epochs, cifar_train_len, cifar_valid_len, cifar_pc,
                   cifar_epoch, batch_idx, global_step, tb_train, tb_valid>>
    /\ UNCHANGED <<loopVars, schedVars>>

\* The validation loader is exhausted.  Lines 108-118: the average loss and
\* the ratio (a ZeroDivisionError when no batch was seen: total is 0), the
\* two scalars on tb_valid at global_step, scheduler.step(loss), and the
\* next iteration of the epoch loop.
CifarValidEnd ==
    /\ cifar_pc = "valid"
    /\ valid_idx >= cifar_valid_len
    /\ IF cifar_valid_len = 0
       THEN /\ cifar_pc' = "failed"
            /\ UNCHANGED <<cifar_epoch, tb_valid>>
       ELSE /\ tb_valid' = tb_valid \o <<<<"loss", global_step>>,
                                          <<"accuracy", global_step>>>>
            /\ cifar_epoch' = cifar_epoch + 1
            /\ cifar_pc' = "loop"
    /\ UNCHANGED <<cifar_epochs, cifar_train_len, cifar_valid_len, batch_idx,
                   valid_idx, global_step, tb_train>>
    /\ UNCHANGED <<loopVars, schedVars>>

NextCifar ==
    \/ CifarLogLr
    \/ CifarExit
    \/ CifarTrainStep
    \/ CifarTrainEnd
    \/ CifarValidStep
    \/ CifarValidEnd

SpecCifar == InitCifar /\ [][NextCifar]_vars

\* --------------------------------------------------------------- claims
\* 10^k, for stating the decay independently of the model's rationals
RECURSIVE Pow10(_)
Pow10(k) == IF k = 0 THEN 1 ELSE 10 * Pow10(k - 1)

\* s_value = 1/world_size + (1 - 1/world_size) * epoch / 5, cross-multiplied
WarmUpFormulaHolds ==
    s_value[1] * 5 * s_world = s_value[2] * (5 + (s_world - 1) * s_epoch)

\* the value of this epoch is strictly above that of the previous epoch
StrictlyAbovePrev == s_prev[1] * s_value[2] < s_value[1] * s_prev[2]

\* C4 as stated: for all world_size >= 1 and epochs 0..4 the multiplier
\* equals 1/world_size + (1 - 1/world_size) * epoch / 5 and is strictly
\* increasing in epoch over these five epochs.
C4_AsStated ==
    /\ s_epoch < 5 => WarmUpFormulaHolds
    /\ (s_epoch >= 1 /\ s_epoch < 5) => StrictlyAbovePrev

\* C4 amended: for all world_size >= 1 and epochs 0..4 the multiplier
\* equals 1/world_size + (1 - 1/world_size) * epoch / 5; it is strictly
\* increasing in epoch over these five epochs when world_size >= 2 and is
\* the constant 1 when world_size = 1.
C4_WarmUp ==
    /\ s_epoch < 5 => WarmUpFormulaHolds
    /\ (s_epoch >= 1 /\ s_epoch < 5 /\ s_world >= 2) => StrictlyAbovePrev
    /\ (s_epoch >= 1 /\ s_epoch < 5 /\ s_world = 1) => (s_value = s_prev /\ s_value = <<1, 1>>)

C4_Witness == s_world = 3 /\ s_epoch = 4 /\ s_value = <<13, 15>> /\ s_prev = <<11, 15>>

\* C5: for every epoch >= 5 the multiplier is 0.1^k, k the number of
\* milestones of {30, 60, 80} that are <= epoch, whatever the world size:
\* 1 for 5..29, 0.1 for 30..59, 0.01 for 60..79, 0.001 from 80 on.
C5_MilestoneDecay ==
    s_epoch >= 5 =>
        /\ s_value[1] * Pow10(Cardinality({m \in {30, 60, 80} : m <= s_epoch}))
               = s_value[2]
        /\ (s_epoch <= 29) => s_value = <<1, 1>>
        /\ (s_epoch >= 30 /\ s_epoch <= 59) => s_value = <<1, 10>>
        /\ (s_epoch >= 60 /\ s_epoch <= 79) => s_value = <<1, 100>>
        /\ (s_epoch >= 80) => s_value = <<1, 1000>>

C5_Witness == s_world = 3 /\ s_epoch = 60 /\ s_value = <<1, 100>> /\ s_prev = <<1, 10>>

\* C6: with world_size = 1 the multiplier is the constant 1 for every epoch
\* 0..4, so the effective learning rate base_learning_rate * multiplier is
\* the same at epochs 0 through 29 (the base rate is fixed for the run).
C6_SingleWorker ==
    s_world = 1 =>
        /\ (s_epoch <= 4) => s_value = <<1, 1>>
        /\ (s_epoch >= 1 /\ s_epoch <= 29) => s_value = s_prev

C6_Witness == s_world = 1 /\ s_epoch = 29 /\ s_value = <<1, 1>>

\* ------------------------------------------------- claims on the training loop
IsPrefix(s, t) == Len(s) <= Len(t) /\ \A k \in 1 .. Len(s) : s[k] = t[k]

ReportNames == {"lr", "time-per/step", "accuracy/train", "loss/train",
                "time-per/epoch", "accuracy/valid", "loss/valid"}

\* the report calls a worker has made so far
ReportCalls(w) == {k \in 1 .. Len(trace[w]) : trace[w][k][1] \in ReportNames}

AllDone == \A w \in Workers : pc[w] = "done"

\* C1: no report call of a worker of rank # 0 reaches the sink or stops the
\* worker: the sink holds only records written by rank 0, exactly one per
\* report call rank 0 has made, and the only failure of a worker is the
\* ratio over an empty validation set.
C1_RankGate ==
    /\ \A k \in 1 .. Len(sink) : sink[k].rank = 0
    /\ Len(sink) = Cardinality(ReportCalls(0))
    /\ \A w \in Workers : pc[w] = "failed" => (total[w] = 0 /\ valid_len = 0)

C1_Witness ==
    /\ world_size = 2
    /\ pc[1] = "done"
    /\ {trace[1][k][1] : k \in ReportCalls(1)} = ReportNames
    /\ pc[0] = "valid"
    /\ Len(sink) >= 1

\* f[0] + ... + f[n-1]
RECURSIVE SumOver(_, _)
SumOver(f, n) == IF n = 0 THEN 0 ELSE f[n - 1] + SumOver(f, n - 1)

\* C2 as stated: the validation accuracy reported for an epoch is the sum of
\* the correct counts of all workers over the sum of their total counts.
\* Checked on the last epoch of a finished run, where every worker still
\* holds its validation counts.
C2_WorldAccuracy ==
    (AllDone /\ epochs >= 1) =>
        LET r == sink[Len(sink) - 1]
            sumCorrect == SumOver(correct, world_size)
            sumTotal == SumOver(total, world_size)
        IN  /\ r.name = "accuracy/valid"
            /\ r.value[1] * sumTotal = r.value[2] * sumCorrect

\* the multiplier the schedule is meant to give at epoch e, as num/den
ExpectedMult(e) ==
    IF e < 5
    THEN <<5 + (world_size - 1) * e, 5 * world_size>>
    ELSE <<1, Pow10(Cardinality({m \in {30, 60, 80} : m <= e}))>>

\* x = 0.0004 * batch * world_size * ExpectedMult(e), cross-multiplied
IsExpectedLr(x, e) ==
    x[1] * 10000 * ExpectedMult(e)[2]
        = x[2] * 4 * batch * world_size * ExpectedMult(e)[1]

\* C3 as stated: during the training steps of loop epoch e the optimizer's
\* learning rate is base_learning_rate * schedule(e), and the 'lr' record
\* of epoch e carries that value (the scheduler's epoch counter is e when
\* its per-epoch step has run).
C3_LrOfEpoch ==
    /\ \A w \in Workers :
          pc[w] \in {"train", "backward"} => IsExpectedLr(lr[w], epoch[w])
    /\ \A k \in 1 .. Len(sink) :
          sink[k].name = "lr" => IsExpectedLr(sink[k].value, sink[k].at[1])

\* the <<epoch, i>> of the k-th training step of a run
StepTag(k, n) == <<(k - 1) \div n, (k - 1) % n>>

\* C7: any two workers join the same all-reduces in the same order, each at
\* the same epoch and step index; a worker joins exactly one per training
\* step, in backward, and none anywhere else (no report joins one).
C7_Lockstep ==
    /\ \A v \in Workers : \A w \in Workers :
          IsPrefix(coll[v], coll[w]) \/ IsPrefix(coll[w], coll[v])
    /\ \A w \in Workers :
          /\ Len(coll[w])
                = Cardinality({k \in 1 .. Len(trace[w]) : trace[w][k][1] = "backward"})
          /\ \A k \in 1 .. Len(coll[w]) :
                coll[w][k] = StepTag(k, ((train_len + world_size - 1) \div world_size) \div batch)
          /\ pc[w] = "backward" => coll[w][Len(coll[w])] = <<epoch[w], i[w]>>

C7_Witness ==
    /\ world_size = 2
    /\ train_len = 3
    /\ batch = 1
    /\ coll[0] = <<<<0, 0>>, <<0, 1>>, <<1, 0>>, <<1, 1>>>>
    /\ coll[1] = coll[0]
    /\ pc[0] = "backward"
    /\ pc[1] = "backward"

RECURSIVE Repeat(_, _)
Repeat(s, n) == IF n <= 0 THEN <<>> ELSE s \o Repeat(s, n - 1)

\* the operations of one training step of worker w in epoch e; the reports
\* are made where the `if tb_add:` branch is taken (always on rank 0)
ExpectedStep(w, e) ==
    <<Ev("forward", e), Ev("loss", e), Ev("backward", e),
      Ev("optimizer.step", e), Ev("zero_grad", e)>>
    \o (IF w = 0 \/ noop_truthy
        THEN <<Ev("time-per/step", e), Ev("accuracy/train", e), Ev("loss/train", e)>>
        ELSE <<>>)

\* the operations of loop epoch e, in the order of the claim
ExpectedEpoch(w, e) ==
    <<Ev("set_epoch", e), Ev("scheduler.step", e), Ev("lr", e)>>
    \o Repeat(ExpectedStep(w, e),
              ((train_len + world_size - 1) \div world_size) \div batch)
    \o <<Ev("time-per/epoch", e)>>
    \o Repeat(<<Ev("valid", e)>>, (valid_len + batch - 1) \div batch)
    \o <<Ev("accuracy/valid", e), Ev("loss/valid", e)>>

RECURSIVE ExpectedRun(_, _)
ExpectedRun(w, n) ==
    IF n = 0 THEN <<>> ELSE ExpectedRun(w, n - 1) \o ExpectedEpoch(w, n - 1)

\* C8: what a worker has done is always a prefix of the epochs 0, 1, ... laid
\* out in the order reseed, scheduler step, 'lr', the N training steps,
\* 'time-per/epoch', the M validation steps, 'accuracy/valid', 'loss/valid';
\* a worker that has returned has done exactly epoch_count such epochs.
C8_EpochOrder ==
    \A w \in Workers :
        /\ IsPrefix(trace[w], ExpectedRun(w, epochs))
        /\ pc[w] = "done" => (trace[w] = ExpectedRun(w, epochs) /\ epoch[w] = epochs)

C8_Witness ==
    /\ world_size = 2
    /\ epochs = 2
    /\ train_len = 3
    /\ batch = 1
    /\ valid_len = 2
    /\ pc[1] = "done"
    /\ Len(trace[1]) = 2 * (3 + 2 * 8 + 1 + 2 + 2)

\* the number of validation samples the replica of worker w is right on
WholeSetRight(w) ==
    Cardinality({k \in 1 .. valid_len : k * world_size <= Reach(w)})

\* every worker that has just finished the validation of the epoch a record
\* belongs to holds the record's ratio as its own correct/total; without
\* training steps the ratio is that of the replicas the run started with
IdenticalRatios ==
    \A k \in 1 .. Len(sink) :
        sink[k].name = "accuracy/valid" =>
            /\ TrainBatches(0) = 0 =>
                  sink[k].value[1] * valid_len
                      = sink[k].value[2] * (IF skill[0] < valid_len THEN skill[0] ELSE valid_len)
            /\ \A w \in Workers :
                  pc[w] \in {"loop", "done"} /\ epoch[w] = sink[k].at[1] =>
                      sink[k].value[1] * total[w] = sink[k].value[2] * correct[w]

\* a validation accuracy written in this step is the ratio of the writer's
\* replica, as it is now, over the whole validation set
SingleWorkerRatio ==
    \A k \in (Len(sink) + 1) .. Len(sink') :
        sink'[k].name = "accuracy/valid" =>
            sink'[k].value[1] * valid_len
                = sink'[k].value[2] * WholeSetRight(sink'[k].rank)

\* C9: when all replicas are identical (every worker is right on the same
\* validation samples), each reported validation accuracy is the ratio
\* correct/total of one worker over the whole validation set, whatever the
\* world size; it is not that ratio times world_size.
C9_IdenticalReplicas ==
    /\ []((\A w \in Workers : skill[w] = skill[0]) => IdenticalRatios)
    /\ [][(\A w \in Workers : skill[w] = skill[0]) => SingleWorkerRatio]_vars

C9_Witness ==
    /\ world_size = 2
    /\ skill = [w \in {0, 1} |-> 1]
    /\ valid_len = 2
    /\ AllDone
    /\ epochs = 1
    /\ sink[Len(sink) - 1].name = "accuracy/valid"
    /\ sink[Len(sink) - 1].value = <<1, 2>>
    /\ SumOver(correct, 2) = 2
    /\ SumOver(total, 2) = 4

SomeCrash == \E w \in Workers : pc[w] = "crashed"

SomeFailure == \E w \in Workers : pc[w] \in {"crashed", "failed"}

\* where a run comes to rest: every worker has returned; or the validation
\* set is empty and every worker has failed at the ratio; or a worker has
\* stopped on a training step and every other worker waits in backward
Settled ==
    \/ AllDone
    \/ valid_len = 0 /\ \A w \in Workers : pc[w] = "failed"
    \/ SomeCrash /\ \A v \in Workers : pc[v] \in {"backward", "crashed"}

\* C10: when no worker fails, every worker returns after its epoch_count
\* epochs and so none stays in a gradient synchronisation forever; once a
\* worker has stopped before a synchronisation point, no other worker gets
\* past that point or returns, and in the end every worker still running
\* waits in backward forever.
C10_Progress ==
    /\ <>[]Settled
    /\ [](\A w \in Workers : pc[w] = "crashed" =>
             \A v \in Workers :
                 /\ pc[v] # "done"
                 /\ Len(coll[v]) <= Len(coll[w]) + 1
                 /\ Len(coll[v]) = Len(coll[w]) + 1 => pc[v] \in {"backward", "crashed"})

C10_Witness ==
    /\ world_size = 2
    /\ pc[0] = "crashed"
    /\ epoch[0] = 1
    /\ pc[1] = "backward"
    /\ Len(coll[1]) = Len(coll[0]) + 1

\* The replica of rank 0 is given by its reach (times world_size).  The
\* number of samples lo+1 .. lo+n a replica of reach r is right on:
Rank0Right(r, lo, n) ==
    Cardinality({k \in (lo + 1) .. (lo + n) : k * world_size <= r})

\* the number of validation batches and the size of the last one
ValidBatchCount == (valid_len + batch - 1) \div batch

LastValidSize == valid_len - (ValidBatchCount - 1) * batch

\* the size of validation batch b (0-based)
ValidSizeAt(b) == IF b = ValidBatchCount - 1 THEN LastValidSize ELSE batch

\* the loss of a replica of reach r on sample k, in millionths
Rank0LossMicro(r, k) ==
    IF k * world_size < r THEN 313262
    ELSE IF k * world_size = r THEN 693147
    ELSE 1313262

\* the sum of the replica's losses on the samples lo+1 .. lo+n, in millionths
RECURSIVE Rank0BatchMicro(_, _, _)
Rank0BatchMicro(r, lo, n) ==
    IF n = 0 THEN 0 ELSE Rank0BatchMicro(r, lo, n - 1) + Rank0LossMicro(r, lo + n)

\* the sum over the first m validation batches of the replica's batch loss
\* (the sum over the batch divided by its size), in millionths and scaled by
\* the common denominator batch * LastValidSize
RECURSIVE Rank0ValidLossSum(_, _)
Rank0ValidLossSum(r, m) ==
    IF m = 0 THEN 0
    ELSE Rank0ValidLossSum(r, m - 1)
            + Rank0BatchMicro(r, (m - 1) * batch, ValidSizeAt(m - 1))
                * ((batch * LastValidSize) \div ValidSizeAt(m - 1))

\* the fraction v, in lowest terms, is num / den
IsFraction(v, num, den) == den % v[2] = 0 /\ v[1] * (den \div v[2]) = num

\* the record rec holds the value rank 0 computes with a replica of reach r
\* from its own batch: the accuracy and the mean loss of training batch
\* at[2], or the sum of the per-batch validation losses divided by the
\* number of batches (each batch counts once, whatever its size)
Rank0Value(rec, r) ==
    /\ rec.name = "accuracy/train" =>
          rec.value[1] * batch = rec.value[2] * Rank0Right(r, rec.at[2] * batch, batch)
    /\ rec.name = "loss/train" =>
          IsFraction(rec.value, Rank0BatchMicro(r, rec.at[2] * batch, batch),
                     1000000 * batch)
    /\ rec.name = "loss/valid" =>
          IsFraction(rec.value, Rank0ValidLossSum(r, ValidBatchCount),
                     1000000 * ValidBatchCount * batch * LastValidSize)

Rank0Names == {"accuracy/train", "loss/train", "loss/valid"}

\* The reach rank 0's replica has after t updates in the run in which the
\* workers of rank # 0 see what rank 0 sees: every gradient of an
\* all-reduce is rank 0's own.
RECURSIVE Rank0AloneReach(_)
Rank0AloneReach(t) ==
    IF t = 0 THEN skill[0] * world_size
    ELSE LET r == Rank0AloneReach(t - 1)
             lo == ((t - 1) % TrainBatches(0)) * batch
         IN  r + world_size * (batch - Cardinality({k \in (lo + 1) .. (lo + batch) :
                                                       k * world_size < r}))

\* the number of updates rank 0 has applied when it computes the record
UpdatesBefore(rec) ==
    IF rec.name = "loss/valid" THEN rec.at[1] * TrainBatches(0)
    ELSE rec.at[1] * TrainBatches(0) + rec.at[2]

\* C11 as stated: every 'accuracy/train', 'loss/train' and 'loss/valid'
\* record is written by rank 0 from its own batch, and what the workers of
\* rank # 0 see does not change it: the value is the one of the run in
\* which they see what rank 0 sees.
C11_AsStated ==
    \A k \in 1 .. Len(sink) :
        sink[k].name \in Rank0Names =>
            /\ sink[k].rank = 0
            /\ Rank0Value(sink[k], Rank0AloneReach(UpdatesBefore(sink[k])))

Rank0Writes == \A k \in 1 .. Len(sink) : sink[k].name \in Rank0Names => sink[k].rank = 0

Rank0Computes ==
    \A k \in (Len(sink) + 1) .. Len(sink') :
        sink'[k].name \in Rank0Names => Rank0Value(sink'[k], Reach(0))

\* C11: every 'accuracy/train', 'loss/train' and 'loss/valid' record of the
\* sink is written by rank 0, and its value is computed from rank 0's own
\* batch with rank 0's replica as it is when the record is written: the
\* training records at (epoch, i) are the accuracy and the mean loss of
\* rank 0's batch i, 'loss/valid' is the sum of rank 0's per-batch
\* validation losses divided by the number of batches.  No count or loss of
\* another worker enters the value; the replica itself has been updated
\* with the gradients of every worker.
C11_RankZeroLocal == []Rank0Writes /\ [][Rank0Computes]_vars

\* Two workers whose replicas differ, one training batch of two samples
\* each.  Rank 0's training losses are 0.313262 and 0.693147, mean
\* 0.5032045; the update adds its one gradient unit and the two of rank 1,
\* after which rank 0's replica favours the target on all three validation
\* samples: 'loss/valid' is 0.313262.  With rank 1 seeing what rank 0 sees
\* the third sample would be a tie and the value (0.313262 + 0.693147) / 2.
C11_Witness ==
    /\ world_size = 2
    /\ skill[0] = 2
    /\ skill[1] = 0
    /\ batch = 2
    /\ train_len = 3
    /\ valid_len = 3
    /\ weights[0] = 3
    /\ \E k \in 1 .. Len(sink) :
          /\ sink[k].name = "loss/train"
          /\ sink[k].at = <<0, 0>>
          /\ sink[k].value = <<1006409, 2000000>>
    /\ \E k \in 1 .. Len(sink) :
          /\ sink[k].name = "loss/valid"
          /\ sink[k].at = <<1>>
          /\ sink[k].value = <<156631, 500000>>

\* ------------------------------------------------- claims on the two loaders
\* the number of entries of sequence s that equal x
Count(s, x) == Cardinality({k \in 1 .. Len(s) : s[k] = x})

\* the size of a worker's training shard, and the whole batches it holds
ShardSize == (train_len + world_size - 1) \div world_size

WholeBatches == ShardSize \div batch

\* C12: validation is not sharded.  While a worker validates, its total is
\* the number of samples of the batches it has evaluated, which are the
\* consecutive batches of the whole validation set, the last partial one
\* included; when the validation phase ends the total is the size of the
\* whole validation set on every worker, after exactly ceil(size / batch)
\* validation steps in that epoch, and 0 <= correct <= total throughout.
\* Training takes only whole batches of the worker's own shard: at most
\* floor(shard / batch) steps per epoch, and exactly that many when the
\* training phase of the epoch is over.
C12_ValidationUnsharded ==
    \A w \in Workers :
        /\ pc[w] = "valid" =>
              /\ total[w] = (IF j[w] * batch < valid_len THEN j[w] * batch ELSE valid_len)
              /\ Count(trace[w], <<"valid", epoch[w]>>) = j[w]
              /\ j[w] <= ValidBatchCount
        /\ (pc[w] \in {"loop", "done"} /\ epoch[w] >= 1) =>
              /\ total[w] = valid_len
              /\ \A e \in 0 .. (epoch[w] - 1) :
                    Count(trace[w], <<"valid", e>>) = ValidBatchCount
        /\ pc[w] = "failed" => total[w] = valid_len
        /\ pc[w] \in {"valid", "loop", "done", "failed"} =>
              (0 <= correct[w] /\ correct[w] <= total[w])
        /\ \A e \in 0 .. MaxEpochs :
              Count(trace[w], <<"forward", e>>) <= WholeBatches
        /\ pc[w] \in {"train", "backward"} => i[w] * batch <= ShardSize
        /\ pc[w] = "valid" =>
              /\ i[w] = WholeBatches
              /\ Count(trace[w], <<"forward", epoch[w]>>) = WholeBatches

\* two workers, three validation samples in batches of two: both workers have
\* finished an epoch with a total of three (the partial batch counted), each
\* having trained on the one whole batch of its shard of two
C12_Witness ==
    /\ world_size = 2
    /\ batch = 2
    /\ valid_len = 3
    /\ train_len = 3
    /\ \A w \in Workers :
          /\ pc[w] = "loop"
          /\ epoch[w] = 1
          /\ total[w] = 3
          /\ Count(trace[w], <<"valid", 0>>) = 2
          /\ Count(trace[w], <<"forward", 0>>) = 1

\* --------------------------------------------- claims on the empty loaders
TrainingOps == {"forward", "loss", "backward", "optimizer.step", "zero_grad",
                "time-per/step", "accuracy/train", "loss/train"}

\* worker w has performed no training step at all
NoTrainingDone(w) ==
    /\ params[w] = 0
    /\ coll[w] = <<>>
    /\ i[w] = 0
    /\ \A k \in 1 .. Len(trace[w]) : trace[w][k][1] \notin TrainingOps

\* what an epoch without training batches consists of
EmptyEpochOps(e) ==
    <<<<"set_epoch", e>>, <<"scheduler.step", e>>, <<"lr", e>>, <<"time-per/epoch", e>>>>
    \o [b \in 1 .. ValidBatchCount |-> <<"valid", e>>]
    \o <<<<"accuracy/valid", e>>, <<"loss/valid", e>>>>

RECURSIVE EmptyRun(_)
EmptyRun(n) == IF n = 0 THEN <<>> ELSE EmptyRun(n - 1) \o EmptyEpochOps(n - 1)

\* the names and indices of the four records rank 0 writes in such an epoch
EmptyEpochRecords(e) ==
    <<<<"lr", <<e>>>>, <<"time-per/epoch", <<e + 1>>>>,
      <<"accuracy/valid", <<e + 1>>>>, <<"loss/valid", <<e + 1>>>>>>

\* when no shard holds a whole batch, no worker ever trains, and every epoch
\* a worker has behind it consists of reseed, scheduler step, 'lr',
\* 'time-per/epoch', the whole validation phase and its two reports
EmptyTrainingEpochs ==
    WholeBatches = 0 =>
        /\ \A w \in Workers :
              /\ NoTrainingDone(w)
              /\ pc[w] \in {"loop", "done"} => trace[w] = EmptyRun(epoch[w])
        /\ pc[0] \in {"loop", "done"} =>
              /\ Len(sink) = 4 * epoch[0]
              /\ \A e \in 0 .. (epoch[0] - 1) : \A n \in 1 .. 4 :
                    <<sink[4 * e + n].name, sink[4 * e + n].at>> = EmptyEpochRecords(e)[n]

\* C13 as stated: with no training batch every epoch still validates, reports
\* and advances to the next epoch, whatever the validation set, so that
\* every worker completes all its epochs.
C13_AsStated ==
    /\ []EmptyTrainingEpochs
    /\ <>[](WholeBatches = 0 => \A w \in Workers : pc[w] = "done" /\ epoch[w] = epochs)

\* over an empty validation set an epoch without training batches ends in
\* the uncaught ZeroDivisionError of line 170: the worker has reseeded,
\* stepped the scheduler, reported 'lr' and 'time-per/epoch' and nothing
\* else, and the sink holds no validation record
EmptyTrainingFailure ==
    WholeBatches = 0 =>
        /\ \A w \in Workers :
              pc[w] = "failed" =>
                  /\ valid_len = 0
                  /\ epoch[w] = 0
                  /\ trace[w] = <<<<"set_epoch", 0>>, <<"scheduler.step", 0>>,
                                  <<"lr", 0>>, <<"time-per/epoch", 0>>>>
        /\ valid_len = 0 =>
              /\ \A k \in 1 .. Len(sink) : sink[k].name \in {"lr", "time-per/epoch"}
              /\ \A w \in Workers : epoch[w] = 0
              /\ pc[0] = "failed" =>
                    /\ Len(sink) = 2
                    /\ <<sink[1].name, sink[1].at>> = <<"lr", <<0>>>>
                    /\ <<sink[2].name, sink[2].at>> = <<"time-per/epoch", <<1>>>>

\* C13: when the training loader yields no batch (no shard holds a whole
\* batch), a worker performs no training step, no backward pass and no
\* optimizer step; every epoch still does the reseed, the scheduler step,
\* the 'lr' report, the 'time-per/epoch' report and the whole validation
\* phase.  When the validation set is not empty the two validation reports
\* follow and the loop goes on to the next epoch, so that every worker
\* completes all its epochs; when it is empty every worker stops in its
\* first epoch on the division by zero, with no validation report and no
\* advance.
C13_EmptyTraining ==
    /\ []EmptyTrainingEpochs
    /\ []EmptyTrainingFailure
    /\ <>[](WholeBatches = 0 =>
               \A w \in Workers :
                   IF valid_len > 0 \/ epochs = 0
                   THEN pc[w] = "done" /\ epoch[w] = epochs
                   ELSE pc[w] = "failed" /\ epoch[w] = 0)

\* two workers with a shard of one sample and batches of two: both have
\* returned after two epochs without a training step, and the sink holds
\* the four records of each epoch
C13_Witness ==
    /\ world_size = 2
    /\ train_len = 1
    /\ batch = 2
    /\ valid_len = 3
    /\ epochs = 2
    /\ AllDone
    /\ \A w \in Workers : params[w] = 0 /\ Len(trace[w]) = 2 * 8
    /\ Len(sink) = 8

ValidReportNames == {"accuracy/valid", "loss/valid"}

\* C14: with an empty validation set a worker stops at the ratio of the first
\* epoch.  No 'accuracy/valid' and no 'loss/valid' is ever reported, by any
\* worker, and every value in the sink is a proper number (a difference of
\* two clock readings, or a fraction whose denominator is positive); a worker never comes back to the head of the epoch loop, so
\* no second epoch starts and no worker returns from a run of one or more
\* epochs; a stopped worker has done nothing after the 'time-per/epoch'
\* report of the epoch it reached.  A worker stops this way only when the
\* validation set is empty.
C14_EmptyValidation ==
    /\ \A k \in 1 .. Len(sink) :
          IF sink[k].name \in {"time-per/step", "time-per/epoch"}
          THEN sink[k].value[1] = "time.time"
          ELSE sink[k].value[2] > 0
    /\ \A w \in Workers : pc[w] = "failed" => (valid_len = 0 /\ total[w] = 0)
    /\ valid_len = 0 =>
          /\ \A k \in 1 .. Len(sink) : sink[k].name \notin ValidReportNames
          /\ \A w \in Workers :
                /\ \A k \in 1 .. Len(trace[w]) : trace[w][k][1] \notin ValidReportNames
                /\ epoch[w] = 0
                /\ Count(trace[w], <<"set_epoch", 0>>) <= 1
                /\ pc[w] = "loop" => trace[w] = <<>>
                /\ pc[w] = "done" => epochs = 0
                /\ pc[w] = "failed" =>
                      /\ trace[w][Len(trace[w])] = <<"time-per/epoch", 0>>
                      /\ mode[w] = "eval"

\* two workers, two epochs asked for, no validation sample: both have trained
\* the first epoch, rank 0 has reported it, and both have stopped at the ratio
C14_Witness ==
    /\ world_size = 2
    /\ epochs = 2
    /\ valid_len = 0
    /\ train_len = 3
    /\ batch = 1
    /\ \A w \in Workers : pc[w] = "failed" /\ params[w] = 2
    /\ sink[Len(sink)].name = "time-per/epoch"

\* ------------------------------------------- claims on the model parameters
\* the positions of worker w's trace that hold operation op
Positions(w, op) == {k \in 1 .. Len(trace[w]) : trace[w][k][1] = op}

\* what worker w's step changes or leaves alone
ParamsFrame(w) ==
    /\ params'[w] # params[w] =>
          /\ pc[w] = "backward"
          /\ mode[w] = "train"
          /\ grads[w] = "ready"
          /\ params'[w] = params[w] + 1
          /\ grads'[w] = "zero"
    /\ (pc[w] = "valid" \/ mode[w] = "eval") =>
          /\ params'[w] = params[w]
          /\ grads'[w] = grads[w]
          /\ Positions(w, "backward")' = Positions(w, "backward")
          /\ Positions(w, "optimizer.step")' = Positions(w, "optimizer.step")
    /\ (Len(trace'[w]) > Len(trace[w]) /\ pc[w] # "backward") =>
          params'[w] = params[w]

\* the order of backward, optimizer step and gradient clear in w's trace
StepDiscipline(w) ==
    /\ params[w] = Cardinality(Positions(w, "optimizer.step"))
    /\ grads[w] = (IF pc[w] = "backward" THEN "ready" ELSE "zero")
    /\ \A k \in Positions(w, "optimizer.step") :
          /\ k > 1 /\ trace[w][k - 1][1] = "backward"
          /\ k < Len(trace[w]) /\ trace[w][k + 1][1] = "zero_grad"
    /\ \A k \in Positions(w, "backward") :
          k < Len(trace[w]) => trace[w][k + 1][1] = "optimizer.step"
    /\ \A k \in Positions(w, "zero_grad") : trace[w][k - 1][1] = "optimizer.step"
    /\ mode[w] = "eval" => pc[w] \in {"valid", "loop", "done", "failed"}

\* C15: a worker's parameters change only in an optimizer step of the
\* training phase, by one update, taken with the gradients of exactly one
\* backward pass and followed at once by the gradient clear: in the order of
\* operations every optimizer step stands between a backward pass and a
\* gradient clear, every backward pass is followed by an optimizer step, and
\* outside backward the gradient buffers are zero.  A step of the validation
\* phase, and any step that only reports, leaves the parameters and the
\* gradient buffers as they are and performs no backward pass and no
\* optimizer step.
C15_ParameterFrame ==
    /\ [](\A w \in Workers : StepDiscipline(w))
    /\ [][\A w \in Workers : ParamsFrame(w)]_vars

\* rank 0 validates after two optimizer steps with zero gradient buffers,
\* while rank 1 is in the backward pass of its second step
C15_Witness ==
    /\ world_size = 2
    /\ pc[0] = "valid"
    /\ j[0] = 1
    /\ params[0] = 2
    /\ grads[0] = "zero"
    /\ pc[1] = "backward"
    /\ params[1] = 1
    /\ grads[1] = "ready"

\* ------------------------------------------------ claims on the report indices
StepReportNames == {"time-per/step", "accuracy/train", "loss/train"}

EpochEndReportNames == {"time-per/epoch", "accuracy/valid", "loss/valid"}

\* index a comes before index b: by epoch, then by step
IndexBefore(a, b) ==
    \/ a[1] < b[1]
    \/ a[1] = b[1] /\ Len(a) = 2 /\ Len(b) = 2 /\ a[2] < b[2]

\* the records a step adds to the sink carry the index of the place they are
\* made at: rank 0's loop epoch, its step, or the epoch plus one
NewRecordsIndexed ==
    \A k \in (Len(sink) + 1) .. Len(sink') :
        LET r == sink'[k]
        IN  /\ r.name = "lr" => r.at = <<epoch[0]>>
            /\ r.name \in StepReportNames =>
                  (r.at = <<epoch[0], i[0]>> /\ i[0] < WholeBatches)
            /\ r.name \in EpochEndReportNames => r.at = <<epoch[0] + 1>>

\* the indices of the records in the sink
SinkIndices ==
    /\ \A k \in 1 .. Len(sink) : \A m \in 1 .. Len(sink) :
          (k < m /\ sink[k].name = sink[m].name) => IndexBefore(sink[k].at, sink[m].at)
    /\ \A k \in 1 .. Len(sink) :
          /\ sink[k].name \in StepReportNames =>
                sink[k].at[2] = Cardinality({m \in 1 .. (k - 1) :
                                    /\ sink[m].name = sink[k].name
                                    /\ sink[m].at[1] = sink[k].at[1]})
          /\ (sink[k].name = "lr" /\ sink[k].at # <<0>>) =>
                /\ k > 3
                /\ sink[k - 3].name = "time-per/epoch" /\ sink[k - 3].at = sink[k].at
                /\ sink[k - 2].name = "accuracy/valid" /\ sink[k - 2].at = sink[k].at
                /\ sink[k - 1].name = "loss/valid" /\ sink[k - 1].at = sink[k].at
    /\ pc[0] \in {"valid", "loop", "done", "failed"} =>
          \A n \in StepReportNames :
              LET e == IF pc[0] \in {"loop", "done"} THEN epoch[0] - 1 ELSE epoch[0]
              IN  e >= 0 =>
                    {sink[k].at[2] : k \in {m \in 1 .. Len(sink) :
                                        sink[m].name = n /\ sink[m].at[1] = e}}
                        = 0 .. (WholeBatches - 1)

\* C16: a report is made with the index of its place in the loop: 'lr' with
\* the loop epoch e, the three per-step reports with (e, i) where i counts
\* the steps of the epoch from 0 to N - 1 in order, and 'time-per/epoch',
\* 'accuracy/valid' and 'loss/valid' with e + 1.  For each metric name the
\* indices in the sink are strictly increasing, and the 'lr' record of every
\* epoch after the first carries the index of the three epoch-end records
\* written just before it.
C16_ReportIndices ==
    /\ []SinkIndices
    /\ [][NewRecordsIndexed]_vars

\* one worker, two epochs of three steps: the run is over, and the 'lr'
\* record of the second epoch and the validation records of the first all
\* carry index 1; the last per-step record carries (1, 2)
C16_Witness ==
    /\ world_size = 1
    /\ epochs = 2
    /\ train_len = 3
    /\ batch = 1
    /\ valid_len = 1
    /\ AllDone
    /\ Len(sink) = 2 * (1 + 3 * 3 + 3)
    /\ sink[13].name = "loss/valid" /\ sink[13].at = <<1>>
    /\ sink[14].name = "lr" /\ sink[14].at = <<1>>
    /\ sink[23].name = "loss/train" /\ sink[23].at = <<1, 2>>

\* ------------------------------------------- claims on the schedule's range
\* x <= y for two rationals with positive denominators
AtMost(x, y) == x[1] * y[2] <= y[1] * x[2]

\* C17: for every world size and epoch the multiplier is above 0 and at most
\* 1; at epoch 0 it is 1/world_size, so that the base rate
\* 0.0004 * batch * world_size times the multiplier is 0.0004 * batch for
\* every batch size; from one epoch to the next it does not go down up to
\* epoch 29 (the step from 4 to 5 included) and does not go up from epoch 5
\* on.
C17_ScheduleRange ==
    /\ s_value[1] > 0 /\ s_value[2] > 0
    /\ s_value[1] <= s_value[2]
    /\ s_epoch = 0 =>
          /\ s_value[1] * s_world = s_value[2]
          /\ \A b \in 1 .. MaxBatch :
                (4 * b * s_world) * s_value[1] * 10000 = (4 * b) * s_value[2] * 10000
    /\ (s_epoch >= 1 /\ s_epoch <= 29) => AtMost(s_prev, s_value)
    /\ s_epoch >= 6 => AtMost(s_value, s_prev)

\* four workers at the end of the warm-up: the multiplier goes from 17/20 at
\* epoch 4 up to 1 at epoch 5
C17_Witness ==
    /\ s_world = 4
    /\ s_epoch = 5
    /\ s_prev = <<17, 20>>
    /\ s_value = <<1, 1>>

\* ----------------------------------------------- claims on the step counter
\* the steps of the records of writer tb that carry tag, in order
StepsOf(tb, tag) ==
    LET HasTag(r) == r[1] = tag
        recs == SelectSeq(tb, HasTag)
    IN  [k \in 1 .. Len(recs) |-> recs[k][2]]

\* global_step where the trainer stands, and the steps on the two writers
StepCounterState ==
    /\ cifar_pc \in {"loop", "done"} => global_step = cifar_epoch * cifar_train_len
    /\ cifar_pc = "train" => global_step = cifar_epoch * cifar_train_len + batch_idx
    /\ cifar_pc \in {"valid", "failed"} =>
          global_step = (cifar_epoch + 1) * cifar_train_len
    /\ StepsOf(tb_train, "loss") = [k \in 1 .. global_step |-> k]
    /\ StepsOf(tb_train, "accuracy") = [k \in 1 .. global_step |-> k]
    /\ StepsOf(tb_valid, "loss") = [k \in 1 .. cifar_epoch |-> k * cifar_train_len]
    /\ StepsOf(tb_valid, "accuracy") = StepsOf(tb_valid, "loss")
    /\ \A k \in 1 .. Len(StepsOf(tb_train, "lr")) :
          StepsOf(tb_train, "lr")[k] = (k - 1) * cifar_train_len
    /\ \A k \in 2 .. Len(StepsOf(tb_train, "lr")) :
          StepsOf(tb_train, "lr")[k] = StepsOf(tb_valid, "loss")[k - 1]

\* what a step of the trainer does to global_step
StepCounterFrame ==
    /\ global_step' # global_step =>
          /\ global_step' = global_step + 1
          /\ cifar_pc = "train"
          /\ batch_idx' = batch_idx + 1
    /\ batch_idx' = batch_idx + 1 => global_step' = global_step + 1
    /\ (tb_valid' # tb_valid \/ valid_idx' # valid_idx) => global_step' = global_step
    /\ Len(StepsOf(tb_train, "lr")') # Len(StepsOf(tb_train, "lr")) =>
          global_step' = global_step

\* C18: global_step is 0 before the first epoch and goes up by exactly one
\* in each training step and in no other step (not in validation, not when
\* the learning rate is logged, never down, never back to 0); with N batches
\* per epoch it is (e+1)*N once epoch e is over.  The training scalars are
\* logged at steps 1, 2, 3, ..., the validation scalars of epoch e at
\* (e+1)*N, and the learning rate of epoch e+1 at that same step.
C18_GlobalStep ==
    /\ []StepCounterState
    /\ [][StepCounterFrame]_vars

\* three epochs of two batches with one validation batch are over: the
\* counter is 6, the validation scalars are at 2, 4, 6 and the learning
\* rates at 0, 2, 4
C18_Witness ==
    /\ cifar_epochs = 3
    /\ cifar_train_len = 2
    /\ cifar_valid_len = 1
    /\ cifar_pc = "done"
    /\ global_step = 6
    /\ StepsOf(tb_train, "loss") = <<1, 2, 3, 4, 5, 6>>
    /\ StepsOf(tb_valid, "accuracy") = <<2, 4, 6>>
    /\ StepsOf(tb_train, "lr") = <<0, 2, 4>>

====
